---- MODULE Spec2Model ----
(***************************************************************************)
(* Model of app.py (AirQuality AI, a Streamlit script).                    *)
(*                                                                         *)
(* A Streamlit script is re-executed from top to bottom on every user      *)
(* interaction.  One execution is: load_model() (line 59, memoised by      *)
(* st.cache_resource), then main() (line 236).  The pickled model and      *)
(* scaler are opaque: scaler.transform and model.predict either raise or   *)
(* return, and the value returned is any float.                            *)
(*                                                                         *)
(* AQI values are floats in the program; here a finite value is an integer *)
(* count of 1/Scale units (Scale = 10: tenths, so 50.1 is 501), and the    *)
(* float NaN is a separate kind of value.  The emoji that prefix the       *)
(* program's strings are left out of the string literals.                  *)
(***************************************************************************)
EXTENDS Integers, Sequences, FiniteSets

VARIABLES
    modelFile,       \* state of model.pkl on disk
    scalerFile,      \* state of scaler.pkl on disk
    cache,           \* st.cache_resource entry of load_model: <<>> or <<pair>>
    loadTrace,       \* path the body of load_model took when it last executed
    model,           \* module global `model`  (line 59)
    scaler,          \* module global `scaler` (line 59)
    pc,              \* position of the script run
    submitted,       \* value of st.form_submit_button in this run
    transformCalls,  \* scaler.transform invocations in this run
    predictCalls,    \* model.predict invocations in this run
    scoringRaised,   \* scaling or prediction raised in this run
    prediction,      \* local `prediction` of main
    result,          \* the rendered prediction block: <<>> or <<record>>
    messages,        \* st.error messages shown in this run, in order
    runs,            \* script runs so far
    failures,        \* earlier-or-current runs that ended in a prediction error
    prev             \* the previous rendered prediction: <<>> or <<record>>

vars == <<modelFile, scalerFile, cache, loadTrace, model, scaler, pc, submitted,
          transformCalls, predictCalls, scoringRaised, prediction, result,
          messages, runs, failures, prev>>

\* ---------------------------------------------------------------- bounds
MaxRuns == 3
Scale == 10
Spread == 1

\* ---------------------------------------------------------------- values
NoneVal == "None"
Obj == "obj"

FileStates == {"ok", "missing", "unreadable"}

Num(v) == [kind |-> "num", v |-> v]
NaN == [kind |-> "nan", v |-> 0]
NoPrediction == [kind |-> "none", v |-> 0]

Boundaries == {0, 50, 100, 150, 200, 300}

\* the floats model.predict(...)[0] may return: around every threshold, and NaN
PredValues == {Num(b * Scale + d) : b \in Boundaries, d \in (0 - Spread)..Spread} \cup {NaN}

LoadErrorMsg == "Model files not found! Please upload model.pkl and scaler.pkl"
PredictionErrorMsg == "Prediction error"
ModelNotLoadedMsg == "Model not loaded. Please check if model files are uploaded."

\* ---------------------------------------------------------------- pure functions

\* variant: strict comparison
Lt(x, c) == x.kind = "num" /\ x.v < c * Scale

\* Python's `aqi_value <= c` on a float: False whenever aqi_value is NaN
Le(x, c) == x.kind = "num" /\ x.v <= c * Scale

Triple(l, c, d) == [label |-> l, css |-> c, desc |-> d]

\* variant: the final else branch is missing, the function falls off its end
get_aqi_category_noelse(aqi_value) ==
    IF Le(aqi_value, 50) THEN Triple("Good", "good", "Air quality is satisfactory")
    ELSE IF Le(aqi_value, 100) THEN Triple("Moderate", "moderate", "Air quality is acceptable")
    ELSE IF Le(aqi_value, 150) THEN Triple("Unhealthy for Sensitive Groups", "unhealthy-sensitive", "Sensitive groups may be affected")
    ELSE IF Le(aqi_value, 200) THEN Triple("Unhealthy", "unhealthy", "Everyone may be affected")
    ELSE IF Le(aqi_value, 300) THEN Triple("Very Unhealthy", "very-unhealthy", "Health alert")
    ELSE Triple(NoneVal, NoneVal, NoneVal)

\* variant: the first branch tests 0 <= aqi_value <= 50, so a negative value
\* matches no bounded branch and reaches the final else
get_aqi_category_bounded(aqi_value) ==
    IF Le(aqi_value, 50) /\ aqi_value.v >= 0 THEN Triple("Good", "good", "Air quality is satisfactory")
    ELSE IF Le(aqi_value, 100) /\ aqi_value.v >= 0 THEN Triple("Moderate", "moderate", "Air quality is acceptable")
    ELSE IF Le(aqi_value, 150) /\ aqi_value.v >= 0 THEN Triple("Unhealthy for Sensitive Groups", "unhealthy-sensitive", "Sensitive groups may be affected")
    ELSE IF Le(aqi_value, 200) /\ aqi_value.v >= 0 THEN Triple("Unhealthy", "unhealthy", "Everyone may be affected")
    ELSE IF Le(aqi_value, 300) /\ aqi_value.v >= 0 THEN Triple("Very Unhealthy", "very-unhealthy", "Health alert")
    ELSE Triple("Hazardous", "hazardous", "Health warning")

\* variant: a label spelled differently from its key in the recommendations table
get_aqi_category_typo(aqi_value) ==
    IF Le(aqi_value, 50) THEN Triple("Good", "good", "Air quality is satisfactory")
    ELSE IF Le(aqi_value, 100) THEN Triple("Moderate", "moderate", "Air quality is acceptable")
    ELSE IF Le(aqi_value, 150) THEN Triple("Unhealthy for Sensitive groups", "unhealthy-sensitive", "Sensitive groups may be affected")
    ELSE IF Le(aqi_value, 200) THEN Triple("Unhealthy", "unhealthy", "Everyone may be affected")
    ELSE IF Le(aqi_value, 300) THEN Triple("Very Unhealthy", "very-unhealthy", "Health alert")
    ELSE Triple("Hazardous", "hazardous", "Health warning")

\* variant: the results of the 150 and 200 branches are exchanged
get_aqi_category_swapped(aqi_value) ==
    IF Le(aqi_value, 50) THEN Triple("Good", "good", "Air quality is satisfactory")
    ELSE IF Le(aqi_value, 100) THEN Triple("Moderate", "moderate", "Air quality is acceptable")
    ELSE IF Le(aqi_value, 150) THEN Triple("Unhealthy", "unhealthy", "Everyone may be affected")
    ELSE IF Le(aqi_value, 200) THEN Triple("Unhealthy for Sensitive Groups", "unhealthy-sensitive", "Sensitive groups may be affected")
    ELSE IF Le(aqi_value, 300) THEN Triple("Very Unhealthy", "very-unhealthy", "Health alert")
    ELSE Triple("Hazardous", "hazardous", "Health warning")

get_aqi_category(aqi_value) ==
    IF Le(aqi_value, 50) THEN Triple("Good", "good", "Air quality is satisfactory")
    ELSE IF Le(aqi_value, 100) THEN Triple("Moderate", "moderate", "Air quality is acceptable")
    ELSE IF Le(aqi_value, 150) THEN Triple("Unhealthy for Sensitive Groups", "unhealthy-sensitive", "Sensitive groups may be affected")
    ELSE IF Le(aqi_value, 200) THEN Triple("Unhealthy", "unhealthy", "Everyone may be affected")
    ELSE IF Le(aqi_value, 300) THEN Triple("Very Unhealthy", "very-unhealthy", "Health alert")
    ELSE Triple("Hazardous", "hazardous", "Health warning")

recommendationKeys ==
    {"Good", "Moderate", "Unhealthy for Sensitive Groups", "Unhealthy", "Very Unhealthy", "Hazardous"}

\* variant: one entry of the table lost a string
recommendations_short ==
    [c \in recommendationKeys |->
        IF c = "Hazardous"
          THEN <<"HEALTH EMERGENCY - Stay indoors", "Cancel all outdoor activities">>
          ELSE <<"first", "second", "third">>]

recommendations ==
    [c \in recommendationKeys |->
        CASE c = "Good" ->
               <<"Perfect for outdoor activities and exercise",
                 "No restrictions needed",
                 "Great day for children to play outside">>
          [] c = "Moderate" ->
               <<"Generally acceptable for most people",
                 "Sensitive individuals should reduce prolonged exertion",
                 "Stay hydrated if exercising outdoors">>
          [] c = "Unhealthy for Sensitive Groups" ->
               <<"Sensitive groups should reduce outdoor activities",
                 "Older adults and children should limit exertion",
                 "Consider moving activities indoors">>
          [] c = "Unhealthy" ->
               <<"Everyone should reduce outdoor activities",
                 "Avoid strenuous exercise outdoors",
                 "Wear masks if going outside">>
          [] c = "Very Unhealthy" ->
               <<"Avoid all outdoor activities",
                 "Stay indoors with windows closed",
                 "Use air purifiers">>
          [] c = "Hazardous" ->
               <<"HEALTH EMERGENCY - Stay indoors",
                 "Cancel all outdoor activities",
                 "Seek medical help if symptoms appear">>]

\* recommendations.get(category, [])
get_recommendations(category) ==
    IF category \in DOMAIN recommendations THEN recommendations[category] ELSE <<>>

\* variant: each file loaded in a try of its own
load_model_partial(mf, sf) ==
    IF mf # "ok" THEN [model |-> NoneVal, scaler |-> NoneVal, trace |-> "model_failed"]
    ELSE IF sf # "ok" THEN [model |-> Obj, scaler |-> NoneVal, trace |-> "scaler_failed"]
    ELSE [model |-> Obj, scaler |-> Obj, trace |-> "both_loaded"]

\* body of load_model: both opens and loads inside one try, bare except
load_model(mf, sf) ==
    IF mf # "ok" THEN [model |-> NoneVal, scaler |-> NoneVal, trace |-> "model_failed"]
    ELSE IF sf # "ok" THEN [model |-> NoneVal, scaler |-> NoneVal, trace |-> "scaler_failed"]
    ELSE [model |-> Obj, scaler |-> Obj, trace |-> "both_loaded"]

\* lines 182-197: classify, look up the recommendations, render the block
Render(p) ==
    [prediction |-> p,
     category |-> get_aqi_category(p).label,
     css_class |-> get_aqi_category(p).css,
     description |-> get_aqi_category(p).desc,
     recommendations |-> get_recommendations(get_aqi_category(p).label)]

\* ---------------------------------------------------------------- state machine

Init ==
    /\ modelFile \in FileStates
    /\ scalerFile \in FileStates
    /\ cache = <<>>
    /\ loadTrace = "none"
    /\ model = NoneVal
    /\ scaler = NoneVal
    /\ pc = "idle"
    /\ submitted = FALSE
    /\ transformCalls = 0
    /\ predictCalls = 0
    /\ scoringRaised = FALSE
    /\ prediction = NoPrediction
    /\ result = <<>>
    /\ messages = <<>>
    /\ runs = 0
    /\ failures = 0
    /\ prev = <<>>

\* a file is uploaded, removed or damaged while the app is up
FileChange ==
    /\ \E mf \in FileStates, sf \in FileStates :
          /\ <<mf, sf>> # <<modelFile, scalerFile>>
          /\ modelFile' = mf
          /\ scalerFile' = sf
    /\ UNCHANGED <<cache, loadTrace, model, scaler, pc, submitted, transformCalls,
                   predictCalls, scoringRaised, prediction, result, messages,
                   runs, failures, prev>>

\* a user interaction starts a new execution of the script
Rerun ==
    /\ pc = "idle"
    /\ runs < MaxRuns
    /\ runs' = runs + 1
    /\ pc' = "load"
    /\ submitted' = FALSE
    /\ transformCalls' = 0
    /\ predictCalls' = 0
    /\ scoringRaised' = FALSE
    /\ prediction' = NoPrediction
    /\ result' = <<>>
    /\ messages' = <<>>
    /\ prev' = IF result # <<>> THEN result ELSE prev
    /\ UNCHANGED <<modelFile, scalerFile, cache, loadTrace, model, scaler, failures>>

\* line 59: model, scaler = load_model(), memoised by @st.cache_resource
\* (a cache hit returns the stored pair and replays the st.error it recorded)
LoadModel ==
    /\ pc = "load"
    /\ IF cache # <<>>
         THEN /\ model' = cache[1].model
              /\ scaler' = cache[1].scaler
              /\ messages' = IF cache[1].trace # "both_loaded"
                               THEN Append(messages, LoadErrorMsg) ELSE messages
              /\ UNCHANGED <<cache, loadTrace>>
         ELSE LET r == load_model(modelFile, scalerFile) IN
              /\ model' = r.model
              /\ scaler' = r.scaler
              /\ cache' = <<r>>
              /\ loadTrace' = r.trace
              /\ messages' = IF r.trace # "both_loaded"
                               THEN Append(messages, LoadErrorMsg) ELSE messages
    /\ pc' = "main"
    /\ UNCHANGED <<modelFile, scalerFile, submitted, transformCalls, predictCalls,
                   scoringRaised, prediction, result, runs, failures, prev>>

\* variant: the availability test is missing from line 174
Branch_noguard(s) == IF s THEN "predict" ELSE "skip"

\* lines 174 and 211: which branch main takes for this value of `submitted`
Branch(s) ==
    IF s /\ model # NoneVal THEN "predict"
    ELSE IF s /\ model = NoneVal THEN "not_loaded"
    ELSE "skip"

\* main up to the prediction branch: the form yields `submitted`
MainForm ==
    /\ pc = "main"
    /\ \E s \in BOOLEAN :
          /\ submitted' = s
          /\ CASE Branch(s) = "predict" ->
                    /\ pc' = "scale"
                    /\ UNCHANGED messages
               [] Branch(s) = "not_loaded" ->
                    /\ messages' = Append(messages, ModelNotLoadedMsg)
                    /\ pc' = "idle"
               [] OTHER ->
                    /\ pc' = "idle"
                    /\ UNCHANGED messages
    /\ UNCHANGED <<modelFile, scalerFile, cache, loadTrace, model, scaler,
                   transformCalls, predictCalls, scoringRaised, prediction, result,
                   runs, failures, prev>>

\* variant: the handler throws the loaded artifacts away
ExceptHandler_drop ==
    /\ scoringRaised' = TRUE
    /\ messages' = Append(messages, PredictionErrorMsg)
    /\ failures' = failures + 1
    /\ pc' = "idle"
    /\ model' = NoneVal
    /\ scaler' = NoneVal
    /\ UNCHANGED <<prediction, result>>

\* variant: the handler scores the same submission once more before giving up
ExceptHandler_retry ==
    IF transformCalls + predictCalls < 2
      THEN /\ pc' = "scale"
           /\ UNCHANGED <<scoringRaised, messages, failures, model, scaler, prediction, result>>
      ELSE /\ scoringRaised' = TRUE
           /\ messages' = Append(messages, PredictionErrorMsg)
           /\ failures' = failures + 1
           /\ pc' = "idle"
           /\ UNCHANGED <<model, scaler, prediction, result>>

\* lines 208-209: except Exception as e: st.error("Prediction error: ...")
ExceptHandler ==
    /\ scoringRaised' = TRUE
    /\ messages' = Append(messages, PredictionErrorMsg)
    /\ failures' = failures + 1
    /\ pc' = "idle"
    /\ UNCHANGED <<model, scaler, prediction, result>>

\* line 178: input_scaled = scaler.transform(input_data)
Transform ==
    /\ pc = "scale"
    /\ transformCalls' = transformCalls + 1
    /\ \E raises \in BOOLEAN :
          IF raises \/ scaler = NoneVal
            THEN ExceptHandler
            ELSE /\ pc' = "predict"
                 /\ UNCHANGED <<scoringRaised, messages, failures, model, scaler,
                                prediction, result>>
    /\ UNCHANGED <<modelFile, scalerFile, cache, loadTrace, submitted, predictCalls,
                   runs, prev>>

\* lines 179-206: prediction = model.predict(input_scaled)[0], then classify and render
Predict ==
    /\ pc = "predict"
    /\ predictCalls' = predictCalls + 1
    /\ \/ ExceptHandler
       \/ \E p \in PredValues :
             /\ prediction' = p
             /\ result' = <<Render(p)>>
             /\ pc' = "idle"
             /\ UNCHANGED <<scoringRaised, messages, failures, model, scaler>>
    /\ UNCHANGED <<modelFile, scalerFile, cache, loadTrace, submitted, transformCalls,
                   runs, prev>>

Next == FileChange \/ Rerun \/ LoadModel \/ MainForm \/ Transform \/ Predict

Spec == Init /\ [][Next]_vars

\* ---------------------------------------------------------------- properties

\* the st.error messages main itself showed in this run
MainErrors == SelectSeq(messages, LAMBDA m : m # LoadErrorMsg)

\* a script run has finished
RunComplete == pc = "idle" /\ runs > 0

Rendered == result # <<>>

SixTriples ==
    {Triple("Good", "good", "Air quality is satisfactory"),
     Triple("Moderate", "moderate", "Air quality is acceptable"),
     Triple("Unhealthy for Sensitive Groups", "unhealthy-sensitive", "Sensitive groups may be affected"),
     Triple("Unhealthy", "unhealthy", "Everyone may be affected"),
     Triple("Very Unhealthy", "very-unhealthy", "Health alert"),
     Triple("Hazardous", "hazardous", "Health warning")}

SixLabels == {t.label : t \in SixTriples}

Rank(l) ==
    CASE l = "Good" -> 0
      [] l = "Moderate" -> 1
      [] l = "Unhealthy for Sensitive Groups" -> 2
      [] l = "Unhealthy" -> 3
      [] l = "Very Unhealthy" -> 4
      [] l = "Hazardous" -> 5
      [] OTHER -> 6

\* C1: a rendered finite AQI value v is labelled Good when 0 <= v <= 50,
\* Moderate when 50 < v <= 100, Unhealthy for Sensitive Groups when
\* 100 < v <= 150, Unhealthy when 150 < v <= 200, Very Unhealthy when
\* 200 < v <= 300 and Hazardous when v > 300 (each boundary value belongs to
\* the lower category, the value just above it to the higher one).
C1_Intervals ==
    (Rendered /\ prediction.kind = "num") =>
        LET v == prediction.v
            c == result[1].category
        IN  /\ (0 <= v /\ v <= 50 * Scale) => c = "Good"
            /\ (50 * Scale < v /\ v <= 100 * Scale) => c = "Moderate"
            /\ (100 * Scale < v /\ v <= 150 * Scale) => c = "Unhealthy for Sensitive Groups"
            /\ (150 * Scale < v /\ v <= 200 * Scale) => c = "Unhealthy"
            /\ (200 * Scale < v /\ v <= 300 * Scale) => c = "Very Unhealthy"
            /\ (300 * Scale < v) => c = "Hazardous"

\* the boundary 50 was rendered Good and the value just above it Moderate
C1_Witness ==
    /\ Rendered /\ prev # <<>>
    /\ prev[1].prediction = Num(50 * Scale) /\ prev[1].category = "Good"
    /\ prediction = Num(50 * Scale + 1) /\ result[1].category = "Moderate"

\* C2: for every finite v >= 0 the classification is exactly one of the six
\* (label, severity tag, description) triples, and a second call with the
\* same v yields the same triple as the first.
C2_TotalDeterministic ==
    (Rendered /\ prediction.kind = "num" /\ prediction.v >= 0) =>
        /\ Triple(result[1].category, result[1].css_class, result[1].description) \in SixTriples
        /\ (prev # <<>> /\ prev[1].prediction = prediction) =>
              /\ prev[1].category = result[1].category
              /\ prev[1].css_class = result[1].css_class
              /\ prev[1].description = result[1].description

\* the same value above 300 was classified in two successive submissions
C2_Witness ==
    /\ Rendered /\ prev # <<>>
    /\ prediction = Num(300 * Scale + 1)
    /\ prev[1].prediction = prediction
    /\ result[1].category = "Hazardous"

\* C3: for each of the six labels get_recommendations returns exactly 3
\* strings, and a repeated call with the same label returns the same list in
\* the same order.
C3_ThreeRecommendations ==
    /\ \A c \in SixLabels : Len(get_recommendations(c)) = 3
    /\ (Rendered /\ result[1].category \in SixLabels) => Len(result[1].recommendations) = 3
    /\ (Rendered /\ prev # <<>> /\ prev[1].category = result[1].category) =>
          prev[1].recommendations = result[1].recommendations

\* two different values of the same category were advised in succession
C3_Witness ==
    /\ Rendered /\ prev # <<>>
    /\ result[1].category = "Hazardous"
    /\ prev[1].category = "Hazardous"
    /\ prev[1].prediction # prediction
    /\ Len(result[1].recommendations) = 3

\* load_model's body ran and one of the two files was missing or unreadable
LoadFailed == loadTrace \in {"model_failed", "scaler_failed"}

\* C4: once load_model has run with model.pkl or scaler.pkl missing or
\* unreadable, no scoring call is ever attempted and nothing is rendered, and
\* every submission ends, without a raised exception, in the single
\* 'model not loaded' message.
C4_ModelUnavailable ==
    LoadFailed =>
        /\ transformCalls = 0
        /\ predictCalls = 0
        /\ ~Rendered
        /\ ~scoringRaised
        /\ pc \in {"idle", "load", "main"}
        /\ (RunComplete /\ submitted) => MainErrors = <<ModelNotLoadedMsg>>

\* a later submission, made when both files are present again, still ended in
\* the 'model not loaded' message
C4_Witness ==
    /\ LoadFailed /\ runs >= 2
    /\ modelFile = "ok" /\ scalerFile = "ok"
    /\ RunComplete /\ submitted
    /\ MainErrors = <<ModelNotLoadedMsg>>

\* C5: a submission whose scaling or prediction raised ends with the single
\* 'Prediction error' message and no result; the loaded model and scaler stay
\* as loaded; and a later submission whose scoring succeeds is rendered from
\* its prediction alone, with no error message.
C5_FailureConfined ==
    /\ scoringRaised => (pc = "idle" /\ ~Rendered /\ MainErrors = <<PredictionErrorMsg>>)
    /\ loadTrace = "both_loaded" => (model = Obj /\ scaler = Obj)
    /\ (failures > 0 /\ Rendered) =>
          /\ MainErrors = <<>>
          /\ ~scoringRaised
          /\ result[1].prediction = prediction
          /\ Triple(result[1].category, result[1].css_class, result[1].description)
                = get_aqi_category(prediction)
          /\ result[1].recommendations = get_recommendations(result[1].category)

\* a submission was rendered after an earlier one had failed
C5_Witness ==
    /\ failures > 0 /\ Rendered /\ RunComplete
    /\ model = Obj /\ scaler = Obj

\* C6: a submission invokes each scoring call at most once, and a finished
\* submission has exactly one outcome: a result and no error, or one error
\* message and no result; the model-unavailable outcome made no scoring call
\* and a prediction error made no second one.
C6_NoRetry ==
    /\ transformCalls <= 1
    /\ predictCalls <= 1
    /\ predictCalls <= transformCalls
    /\ (RunComplete /\ submitted) =>
          \/ Rendered /\ MainErrors = <<>>
          \/ ~Rendered /\ MainErrors = <<ModelNotLoadedMsg>>
                /\ transformCalls = 0 /\ predictCalls = 0
          \/ ~Rendered /\ MainErrors = <<PredictionErrorMsg>>
                /\ scoringRaised /\ transformCalls = 1
    /\ (RunComplete /\ ~submitted) => (MainErrors = <<>> /\ ~Rendered /\ transformCalls = 0)

\* model.predict raised in a finished submission
C6_Witness ==
    /\ RunComplete /\ submitted /\ scoringRaised
    /\ transformCalls = 1 /\ predictCalls = 1
    /\ MainErrors = <<PredictionErrorMsg>>

\* C7 as stated: a rendered negative AQI value is classified as Hazardous.
C7_NegativeHazardous ==
    (Rendered /\ prediction.kind = "num" /\ prediction.v < 0) =>
        result[1].category = "Hazardous"

\* C7 amended: a rendered negative AQI value is matched by the first branch
\* (aqi_value <= 50) and is classified as Good.
C7_NegativeGood ==
    (Rendered /\ prediction.kind = "num" /\ prediction.v < 0) =>
        /\ result[1].category = "Good"
        /\ result[1].css_class = "good"

\* a negative prediction was rendered
C7_Witness ==
    /\ Rendered /\ prediction = Num(0 - 1)
    /\ result[1].category = "Good"

\* C8: every rendered prediction, whatever the predicted value, carries a label
\* that is a key of the recommendations table and shows that key's non-empty
\* list.
C8_FallbackUnreachable ==
    Rendered =>
        /\ result[1].category \in recommendationKeys
        /\ result[1].recommendations # <<>>
        /\ result[1].recommendations = recommendations[result[1].category]

\* a NaN prediction, which no comparison matches, was rendered with advice
C8_Witness ==
    /\ Rendered /\ prediction = NaN
    /\ result[1].category = "Hazardous"
    /\ Len(result[1].recommendations) > 0

\* C9: the model and the scaler are both loaded or both absent, also when
\* model.pkl loaded and scaler.pkl then failed, and scaler.transform is never
\* invoked while the scaler is absent.
C9_BothOrNeither ==
    /\ (model = NoneVal) <=> (scaler = NoneVal)
    /\ loadTrace = "scaler_failed" => model = NoneVal
    /\ transformCalls > 0 => scaler = Obj

\* model.pkl loaded, scaler.pkl failed, and a submission was then handled
C9_Witness ==
    /\ loadTrace = "scaler_failed"
    /\ RunComplete /\ submitted
    /\ model = NoneVal /\ scaler = NoneVal

\* C10: for two finite AQI values a <= b, the category of a is never more
\* severe than the category of b.
C10_Monotone ==
    (Rendered /\ prev # <<>> /\ prediction.kind = "num" /\ prev[1].prediction.kind = "num") =>
        /\ prev[1].prediction.v <= prediction.v => Rank(prev[1].category) <= Rank(result[1].category)
        /\ prediction.v <= prev[1].prediction.v => Rank(result[1].category) <= Rank(prev[1].category)

\* a value in the 150 band was followed by one in the 200 band
C10_Witness ==
    /\ Rendered /\ prev # <<>>
    /\ prev[1].prediction = Num(150 * Scale)
    /\ prediction = Num(150 * Scale + 1)
    /\ Rank(prev[1].category) < Rank(result[1].category)

====
